---------------------------- MODULE Spec2Model ----------------------------
(***************************************************************************)
(* Model of WPF/migrate_di.py: the widget DI migration script.             *)
(*                                                                         *)
(* File contents are sequences of lexical tokens.  Every token stands for  *)
(* a fixed piece of C# text; the regular expressions of the script are     *)
(* evaluated over these tokens with the matching rules of Python's re      *)
(* (leftmost match, greedy and lazy quantifiers, negated classes).         *)
(*   "public" "private" "protected" "internal"  the keyword and one space  *)
(*   "class"                                    "class "                   *)
(*   "FooWidget" "Helper"                       identifiers                *)
(*   "{" "}" "(" ")"                            the single characters      *)
(*   "ws"                                       a run of white space       *)
(*   "LI" "TI" "CI"     Logger.Instance, ThemeManager.Instance,            *)
(*                      ConfigurationManager.Instance                      *)
(*   "logger" "themeManager" "config"           the injected field names   *)
(*   "fldLogger"        "readonly ILogger logger;" (after "private ")      *)
(*   "nullchecks"       the three null-check statements; holds ( and )     *)
(*   every other token  text without braces, parentheses or keywords       *)
(***************************************************************************)
EXTENDS Integers, Sequences, FiniteSets, TLC

\* Number of entries of WIDGETS_TO_MIGRATE considered by the model.
NumFiles == 3

Files == 1..NumFiles

Visibility == {"private", "public", "protected", "internal"}

\* Identifiers matched by \w+Widget.
WidgetNames == {"FooWidget"}

Braces == {"{", "}"}

\* Tokens whose text holds a closing parenthesis.
HasRParen == {")", "nullchecks"}

SingleChar == {"{", "}", "(", ")", ";"}

Min(S) == CHOOSE x \in S : \A y \in S : x <= y

Max(S) == CHOOSE x \in S : \A y \in S : x >= y

\* Least j >= i with j past the end of c or c[j] in S: the end of a greedy
\* [^S]* started at i.
RECURSIVE SkipNot(_, _, _)
SkipNot(c, i, S) ==
    IF i > Len(c) \/ c[i] \in S THEN i ELSE SkipNot(c, i + 1, S)

\* End of a greedy \s* started at i.
RECURSIVE SkipWs(_, _)
SkipWs(c, i) ==
    IF i > Len(c) \/ c[i] # "ws" THEN i ELSE SkipWs(c, i + 1)

Tok(c, i) == IF i >= 1 /\ i <= Len(c) THEN c[i] ELSE "eof"

\* c[a..b], empty when b < a.
Slice(c, a, b) == IF b < a THEN << >> ELSE SubSeq(c, a, b)

\* s occurs in c at position i.
OccursAt(c, s, i) ==
    /\ i >= 1
    /\ i + Len(s) - 1 <= Len(c)
    /\ \A k \in 1..Len(s) : c[i + k - 1] = s[k]

Occurrences(c, s) == {i \in 1..Len(c) : OccursAt(c, s, i)}

\* ------------------------------------------------------------------------
\* re.search(r'public class (\w+Widget)', content)
ClassMatches(c) ==
    {i \in 1..Len(c) : /\ i + 2 <= Len(c)
                       /\ c[i] = "public"
                       /\ c[i + 1] = "class"
                       /\ c[i + 2] \in WidgetNames}

HasClass(c) == ClassMatches(c) # {}

ClassName(c) == c[Min(ClassMatches(c)) + 2]

\* 'private readonly ILogger logger;' in content
Marker == <<"private", "fldLogger">>

HasMarker(c) == Occurrences(c, Marker) # {}

\* ------------------------------------------------------------------------
\* The body part of ctor_pattern, started right after the opening brace:
\*   ([^{}]*(?:{[^{}]*}[^{}]*)*?)}
\* The index of the closing brace, or 0 when the text is not balanced within
\* one level of nesting.
RECURSIVE BodyEnd(_, _)
BodyEnd(c, j) ==
    LET k == SkipNot(c, j, Braces)
    IN  IF k > Len(c) THEN 0
        ELSE IF c[k] = "}" THEN k
        ELSE LET m == SkipNot(c, k + 1, Braces)
             IN  IF m > Len(c) \/ c[m] = "{" THEN 0
                 ELSE BodyEnd(c, m + 1)

\* The index of the opening brace of a match of
\*   public <name>\s*\([^)]*\)\s*{
\* anchored at i, or 0.
CtorOpen(c, i, name) ==
    IF ~(Tok(c, i) = "public" /\ Tok(c, i + 1) = name) THEN 0
    ELSE LET a == SkipWs(c, i + 2)
         IN  IF Tok(c, a) # "(" THEN 0
             ELSE LET b == SkipNot(c, a + 1, HasRParen)
                  IN  IF Tok(c, b) # ")" THEN 0
                      ELSE LET d == SkipWs(c, b + 1)
                           IN  IF Tok(c, d) = "{" THEN d ELSE 0

\* The index of the last token of a match of ctor_pattern anchored at i, or 0.
CtorEnd(c, i, name) ==
    LET d == CtorOpen(c, i, name)
    IN  IF d = 0 THEN 0 ELSE BodyEnd(c, d + 1)

CtorMatches(c, name) == {i \in 1..Len(c) : CtorEnd(c, i, name) # 0}

\* re.search(ctor_pattern, content, re.DOTALL) finds a match.
HasCtor(c, name) == CtorMatches(c, name) # {}

CtorStart(c, name) == Min(CtorMatches(c, name))

\* ctor_match.group(1)
CtorBody(c, name) ==
    LET i == CtorStart(c, name)
    IN  Slice(c, CtorOpen(c, i, name) + 1, CtorEnd(c, i, name) - 1)

\* str.strip()
RECURSIVE Strip(_)
Strip(s) ==
    IF s = << >> THEN s
    ELSE IF Head(s) = "ws" THEN Strip(Tail(s))
    ELSE IF s[Len(s)] = "ws" THEN Strip(SubSeq(s, 1, Len(s) - 1))
    ELSE s

\* '\n'.join(f'            {line}' for line in ctor_body.strip().split('\n')):
\* the first line gets its indentation in front, the indentation of the
\* other lines joins the white space already between them.
Initialization(body) == <<"ws">> \o Strip(body)

\* DI_CONSTRUCTOR_TEMPLATE.format(class_name=..., initialization=...)
DiCode(name, init) ==
       <<"ws", "private", "fldLogger", "ws", "private", "fldTheme",
         "ws", "private", "fldConfig", "ws", "docDI", "ws",
         "public", name, "(", "ws", "params", ")", "ws", "{",
         "ws", "nullchecks", "ws">>
    \o init
    \o <<"ws", "}", "ws", "docCompat", "ws",
         "public", name, "(", ")", "ws", "this", "(",
         "LI", "comma", "TI", "comma", "CI", ")", "ws", "{", "ws", "}", "ws">>

\* ------------------------------------------------------------------------
\* A match of class_start_pattern anchored at i:
\*   public class <name>[^{]*{([^{]*)(?=private|public|protected|internal)
\* The set holds the index where the lookahead succeeds (the end of the
\* greedy group 1), and is empty when there is no match at i.
ClassStartAt(c, i, name) ==
    IF ~OccursAt(c, <<"public", "class", name>>, i) THEN {}
    ELSE LET j == SkipNot(c, i + 3, {"{"})
         IN  IF j > Len(c) THEN {}
             ELSE LET k == SkipNot(c, j + 1, {"{"})
                      ps == {p \in (j + 1)..(k - 1) : c[p] \in Visibility}
                  IN  IF ps = {} THEN {} ELSE {Max(ps)}

ClassStartMatches(c, name) ==
    {i \in 1..Len(c) : ClassStartAt(c, i, name) # {}}

\* prefix[prefix.find("private"):]
PrefixTail(prefix) ==
    LET ps == {q \in 1..Len(prefix) : prefix[q] = "private"}
    IN  IF ps # {} THEN Slice(prefix, Min(ps), Len(prefix))
        ELSE IF prefix = << >> THEN << >>
        ELSE LET t == prefix[Len(prefix)]
             IN  IF t = "ws" \/ t \in SingleChar THEN <<t>> ELSE <<"frag">>

\* replace_constructor(match)
ReplaceConstructor(name, di, prefix) ==
       <<"public", "class", name, "fixedbase", "ws", "{">>
    \o di \o <<"ws">> \o PrefixTail(prefix)

\* re.sub(class_start_pattern, replace_constructor, content, count=1, ...)
Splice(c, name, di) ==
    IF ClassStartMatches(c, name) = {} THEN c
    ELSE LET i == Min(ClassStartMatches(c, name))
             j == SkipNot(c, i + 3, {"{"})
             p == Max(ClassStartAt(c, i, name))
         IN     Slice(c, 1, i - 1)
             \o ReplaceConstructor(name, di, Slice(c, j + 1, p - 1))
             \o Slice(c, p, Len(c))

\* re.sub(ctor_pattern, '', content, count=1, flags=re.DOTALL)
RemoveCtor(c, name) ==
    IF ~HasCtor(c, name) THEN c
    ELSE LET i == CtorStart(c, name)
         IN  Slice(c, 1, i - 1) \o Slice(c, CtorEnd(c, i, name) + 1, Len(c))

\* for pattern, replacement in replacements: content = re.sub(...)
RewriteTok(t) ==
    CASE t = "LI" -> "logger"
      [] t = "TI" -> "themeManager"
      [] t = "CI" -> "config"
      [] OTHER -> t

Rewrite(c) == [k \in 1..Len(c) |-> RewriteTok(c[k])]

\* The content migrate_widget holds in memory when it reaches "Write back".
Transformed(c) ==
    LET name == ClassName(c)
        di == DiCode(name, Initialization(CtorBody(c, name)))
    IN  Rewrite(RemoveCtor(Splice(c, name, di), name))

\* The branch migrate_widget takes on a readable file with content c.
Outcome(c) ==
    IF ~HasClass(c) THEN "NoClass"
    ELSE IF HasMarker(c) THEN "AlreadyMigrated"
    ELSE IF ~HasCtor(c, ClassName(c)) THEN "NoCtor"
    ELSE IF Transformed(c) # c THEN "Migrated"
    ELSE "NoChanges"

\* ------------------------------------------------------------------------
\* File contents the run may find on disk.
Hdr(name, bases) == <<"public", "class", name>> \o bases \o <<"ws", "{">>

Ctor(name, params, body) ==
    <<"ws", "public", name, "(">> \o params \o <<")", "ws", "{">> \o body \o <<"}">>

Method(body) == <<"ws", "public", "method", "{">> \o body \o <<"}">>

Close == <<"ws", "}">>

Inputs ==
    { \* base list, private field, constructor using a singleton, method
      Hdr("FooWidget", <<"base">>) \o <<"ws", "private", "field">>
        \o Ctor("FooWidget", << >>, <<"ws", "assign", "LI", "ws">>)
        \o Method(<<"TI">>) \o Close,
      \* no base list, no member ahead of an empty constructor
      Hdr("FooWidget", << >>) \o Ctor("FooWidget", << >>, << >>) \o Close,
      \* comment and package-private field ahead of the first private field
      Hdr("FooWidget", <<"base">>)
        \o <<"ws", "comment", "ws", "field", "ws", "private", "field">>
        \o Ctor("FooWidget", << >>, <<"ws", "CI", "ws">>) \o Close,
      \* protected field, no private keyword ahead of the constructor
      Hdr("FooWidget", <<"base">>) \o <<"ws", "protected", "field">>
        \o Ctor("FooWidget", << >>, <<"ws", "assign", "TI", "ws">>) \o Close,
      \* the class opens directly on the constructor
      <<"public", "class", "FooWidget", "{", "public", "FooWidget", "(", ")",
        "{", "LI", "}", "}">>,
      \* constructor body with one nested block
      Hdr("FooWidget", <<"fixedbase">>) \o <<"ws", "private", "field">>
        \o Ctor("FooWidget", << >>,
                <<"ws", "if", "{", "ws", "TI", "ws", "}", "ws", "assign", "ws">>)
        \o Close,
      \* constructor body with two nested levels: not extractable
      Hdr("FooWidget", <<"base">>) \o <<"ws", "private", "field">>
        \o Ctor("FooWidget", << >>,
                <<"ws", "if", "{", "if", "{", "LI", "}", "}", "ws">>)
        \o Close,
      \* only a constructor with parameters
      Hdr("FooWidget", <<"base">>) \o <<"ws", "private", "field">>
        \o Ctor("FooWidget", <<"arg">>, <<"ws", "assign", "ws">>)
        \o Method(<<"LI">>) \o Close,
      \* a property block without visibility keyword ahead of the constructor
      Hdr("FooWidget", <<"base">>) \o <<"ws", "prop", "{", "}">>
        \o Ctor("FooWidget", << >>, <<"ws", "assign", "LI", "ws">>) \o Close,
      \* class without constructor
      Hdr("FooWidget", <<"base">>) \o <<"ws", "private", "field">>
        \o Method(<<"LI">>) \o Close,
      \* class whose name does not end in Widget
      Hdr("Helper", << >>) \o <<"ws", "private", "field">>
        \o Ctor("Helper", << >>, <<"ws", "LI", "ws">>) \o Close,
      \* no class at all
      <<"comment", "ws">>,
      \* migrated by hand before the run
      Hdr("FooWidget", <<"fixedbase">>)
        \o <<"ws", "private", "fldLogger", "ws", "private", "field">>
        \o Ctor("FooWidget", <<"params">>, <<"ws", "nullchecks", "ws">>)
        \o Method(<<"themeManager">>) \o Close,
      \* marker present, class name absent
      Hdr("Helper", << >>) \o <<"ws", "private", "fldLogger">> \o Close }

\* migrate_widget on every content a readable file may hold: the branch it
\* takes and the content it holds in memory when it returns.
MigrateWidget ==
    [c \in Inputs |->
        LET o == Outcome(c)
        IN  [outcome |-> o,
             content |-> IF o \in {"Migrated", "NoChanges"}
                         THEN Transformed(c) ELSE c]]

\* What read_text() finds for an existing file that cannot be decoded.
Undecodable == <<"bytes">>

\* ------------------------------------------------------------------------
VARIABLES
    dirExists,       \* widgets_dir.exists()
    fstate,          \* per listed file: "missing", "unreadable" or "ok"
    disk,            \* per listed file: its content on disk
    pc,              \* position of main: "start", "loop" or "done"
    idx,             \* position of the for loop in WIDGETS_TO_MIGRATE
    migrated_count,
    failed_count,
    summary,         \* the printed totals <<migrated, failed, skipped>>
    exitCode,        \* value returned by main, -1 while it runs
    orig,            \* history: the content of each file before the run
    writes,          \* history: number of write_text() calls per file
    log              \* history: the files handled so far and their outcomes

vars == <<dirExists, fstate, disk, pc, idx, migrated_count, failed_count,
          summary, exitCode, orig, writes, log>>

Init ==
    /\ dirExists \in BOOLEAN
    /\ fstate \in [Files -> {"missing", "unreadable", "ok"}]
    /\ dirExists = FALSE => \A i \in Files : fstate[i] = "missing"
    /\ disk \in [Files -> Inputs \cup {<< >>, Undecodable}]
    /\ \A i \in Files : /\ fstate[i] = "missing" => disk[i] = << >>
                        /\ fstate[i] = "unreadable" => disk[i] = Undecodable
                        /\ fstate[i] = "ok" => disk[i] \in Inputs
    /\ pc = "start"
    /\ idx = 1
    /\ migrated_count = 0
    /\ failed_count = 0
    /\ summary = << >>
    /\ exitCode = -1
    /\ orig = disk
    /\ writes = [i \in Files |-> 0]
    /\ log = << >>

\* main: the Widgets directory is absent.
DirMissing ==
    /\ pc = "start"
    /\ ~dirExists
    /\ pc' = "done"
    /\ exitCode' = 1
    /\ UNCHANGED <<dirExists, fstate, disk, idx, migrated_count, failed_count,
                   summary, orig, writes, log>>

\* main: the counters are set and the loop is entered.
EnterLoop ==
    /\ pc = "start"
    /\ dirExists
    /\ pc' = "loop"
    /\ idx' = 1
    /\ migrated_count' = 0
    /\ failed_count' = 0
    /\ UNCHANGED <<dirExists, fstate, disk, summary, exitCode, orig, writes, log>>

InLoop == pc = "loop" /\ idx <= NumFiles

Logged(o) == log' = Append(log, [file |-> idx, outcome |-> o])

\* Loop body: file_path.exists() is false.
FileNotFound ==
    /\ InLoop
    /\ fstate[idx] = "missing"
    /\ failed_count' = failed_count + 1
    /\ idx' = idx + 1
    /\ Logged("MissingFile")
    /\ UNCHANGED <<dirExists, fstate, disk, pc, migrated_count, summary,
                   exitCode, orig, writes>>

\* MigrateRaises without the except clause of main: the exception leaves main.
MigrateRaisesPropagates ==
    /\ InLoop
    /\ fstate[idx] = "unreadable"
    /\ pc' = "done"
    /\ exitCode' = 1
    /\ UNCHANGED <<dirExists, fstate, disk, idx, migrated_count, failed_count,
                   summary, orig, writes, log>>

\* Loop body: migrate_widget raises in read_text(), main catches it.
MigrateRaises ==
    /\ InLoop
    /\ fstate[idx] = "unreadable"
    /\ failed_count' = failed_count + 1
    /\ idx' = idx + 1
    /\ Logged("Error")
    /\ UNCHANGED <<dirExists, fstate, disk, pc, migrated_count, summary,
                   exitCode, orig, writes>>

\* Loop body: migrate_widget returns False from one of its early exits.
ReturnsFalse(o) ==
    /\ InLoop
    /\ fstate[idx] = "ok"
    /\ MigrateWidget[disk[idx]].outcome = o
    /\ idx' = idx + 1
    /\ Logged(o)
    /\ UNCHANGED <<dirExists, fstate, disk, pc, migrated_count, failed_count,
                   summary, exitCode, orig, writes>>

\* "Could not find class name"
NoClassName == ReturnsFalse("NoClass")

\* "Already migrated - skipping"
AlreadyMigrated == ReturnsFalse("AlreadyMigrated")

\* NoConstructor with the reference rewriting done on the file itself ahead of
\* the constructor search.
NoConstructorEager ==
    /\ InLoop
    /\ fstate[idx] = "ok"
    /\ MigrateWidget[disk[idx]].outcome = "NoCtor"
    /\ disk' = [disk EXCEPT ![idx] = Rewrite(disk[idx])]
    /\ writes' = [writes EXCEPT ![idx] = @ + 1]
    /\ idx' = idx + 1
    /\ Logged("NoCtor")
    /\ UNCHANGED <<dirExists, fstate, pc, migrated_count, failed_count,
                   summary, exitCode, orig>>

\* "Could not find parameterless constructor"
NoConstructor == ReturnsFalse("NoCtor")

\* Loop body: migrate_widget reaches "Write back".
WriteBack ==
    /\ InLoop
    /\ fstate[idx] = "ok"
    /\ MigrateWidget[disk[idx]].outcome \in {"Migrated", "NoChanges"}
    /\ LET content == MigrateWidget[disk[idx]].content
       IN  IF content # disk[idx]
           THEN /\ disk' = [disk EXCEPT ![idx] = content]
                /\ writes' = [writes EXCEPT ![idx] = @ + 1]
                /\ migrated_count' = migrated_count + 1
                /\ Logged("Migrated")
           ELSE /\ UNCHANGED <<disk, writes, migrated_count>>
                /\ Logged("NoChanges")
    /\ idx' = idx + 1
    /\ UNCHANGED <<dirExists, fstate, pc, failed_count, summary, exitCode, orig>>

\* main: the summary is printed and the exit code returned.
Summary ==
    /\ pc = "loop"
    /\ idx > NumFiles
    /\ summary' = <<migrated_count, failed_count,
                    NumFiles - migrated_count - failed_count>>
    /\ exitCode' = IF failed_count = 0 THEN 0 ELSE 1
    /\ pc' = "done"
    /\ UNCHANGED <<dirExists, fstate, disk, idx, migrated_count, failed_count,
                   orig, writes, log>>

Next ==
    \/ DirMissing
    \/ EnterLoop
    \/ FileNotFound
    \/ MigrateRaises
    \/ NoClassName
    \/ AlreadyMigrated
    \/ NoConstructor
    \/ WriteBack
    \/ Summary

Spec == Init /\ [][Next]_vars

\* main runs to its return: nothing suspends it.
FairSpec == Spec /\ WF_vars(Next)

\* ------------------------------------------------------------------------
\* Properties.

Handled(i) == \E k \in 1..Len(log) : log[k].file = i

OutcomeOf(i) ==
    IF Handled(i)
    THEN log[CHOOSE k \in 1..Len(log) : log[k].file = i].outcome
    ELSE "none"

MigratedFiles == {i \in Files : OutcomeOf(i) = "Migrated"}

\* Files on which the Class-Body Locator matched.
Located(i) == ClassStartMatches(orig[i], ClassName(orig[i])) # {}

DiSignature(name) == <<"public", name, "(", "ws", "params", ")">>

NoArgSignature(name) == <<"public", name, "(", ")">>

Delegation == <<"this", "(", "LI", "comma", "TI", "comma", "CI", ")">>

\* The synthesized explicit-dependency constructor as it stands after the
\* Reference Rewriter, for the file with original content c.
DiCtorOf(c) ==
    LET name == ClassName(c)
    IN  DiSignature(name) \o <<"ws", "{", "ws", "nullchecks", "ws">>
        \o Rewrite(Initialization(CtorBody(c, name))) \o <<"ws", "}">>

\* C1: every migrated file holds exactly one explicit-dependency
\* constructor, the synthesized one carrying the extracted initialization
\* lines, and exactly one no-argument constructor, the synthesized
\* delegating one; the original no-argument constructor is gone.
C1_OneConstructorOfEachKind ==
    \A i \in MigratedFiles :
        LET name == ClassName(orig[i])
            noarg == Occurrences(disk[i], NoArgSignature(name))
        IN  /\ Cardinality(Occurrences(disk[i], DiSignature(name))) = 1
            /\ Occurrences(disk[i], DiCtorOf(orig[i])) # {}
            /\ Cardinality(noarg) = 1
            /\ \A q \in noarg : OccursAt(disk[i], <<"ws", "this">>, q + 4)

\* C2: after the Reference Rewriter has run on a migrated file, the
\* delegating constructor still passes Logger.Instance,
\* ThemeManager.Instance, ConfigurationManager.Instance.
C2_DelegationArgumentsKept ==
    \A i \in MigratedFiles :
        Located(i) => Occurrences(disk[i], Delegation) # {}

\* C3: a step that handles a file lacking the class name or an extractable
\* constructor leaves the disk unchanged and adds one to the failed counter.
C3_StructuralMismatchCountsAsFailed ==
    [][(NoClassName \/ NoConstructor)
          => (disk' = disk /\ failed_count' = failed_count + 1)]_vars

FailedFile(i) ==
    \/ fstate[i] = "missing"
    \/ OutcomeOf(i) \in {"MissingFile", "Error", "NoClass", "NoCtor"}

\* C4: main returns 0 exactly when no listed file is absent, structurally
\* mismatched or raised an exception, and 1 otherwise.
C4_ExitCodeZeroIffNoFailure ==
    pc = "done" =>
        /\ exitCode \in {0, 1}
        /\ exitCode = 0 <=> \A i \in Files : ~FailedFile(i)

\* C5: every content written by a Migrated outcome holds the marker and the
\* class name, so a second call of migrate_widget on it takes the
\* already-migrated branch and leaves it unchanged.
C5_SecondRunSkips ==
    \A i \in MigratedFiles :
        /\ HasMarker(disk[i])
        /\ HasClass(disk[i])
        /\ Outcome(disk[i]) = "AlreadyMigrated"

\* C6: each file is written at most once, only with the outcome Migrated,
\* and with any other outcome (or before it is handled) its content on disk
\* is its content before the run.
C6_NoPartialWrite ==
    \A i \in Files :
        /\ writes[i] <= 1
        /\ writes[i] = 1 => OutcomeOf(i) = "Migrated"
        /\ OutcomeOf(i) # "Migrated" => disk[i] = orig[i]

\* C6 witness: the run is over, one file was migrated and written once, and
\* a file with a class but no extractable constructor is unchanged although
\* it holds singleton accessors.
C6_Witness ==
    /\ pc = "done"
    /\ \E i \in Files : /\ OutcomeOf(i) = "Migrated"
                        /\ writes[i] = 1
                        /\ disk[i] # orig[i]
    /\ \E i \in Files : /\ OutcomeOf(i) = "NoCtor"
                        /\ Rewrite(orig[i]) # orig[i]
                        /\ writes[i] = 0
                        /\ disk[i] = orig[i]

FailureEntries ==
    {k \in 1..Len(log) : log[k].outcome \in {"MissingFile", "Error"}}

\* The k-th file handled is the k-th file of the list, and every missing
\* file and every exception has added one to the failed counter.
C7_InOrder ==
    /\ \A k \in 1..Len(log) : log[k].file = k
    /\ pc # "start" => idx = Len(log) + 1
    /\ failed_count = Cardinality(FailureEntries)

C7_Completed ==
    /\ pc = "done"
    /\ summary # << >>
    /\ Len(log) = NumFiles

C8_LocatorMismatchAborts ==
    \A i \in Files :
        (/\ Handled(i)
         /\ fstate[i] = "ok"
         /\ HasClass(orig[i])
         /\ ~HasMarker(orig[i])
         /\ HasCtor(orig[i], ClassName(orig[i]))
         /\ ~Located(i))
        => (disk[i] = orig[i] /\ OutcomeOf(i) # "Migrated")

\* C9: every file has one outcome and the printed counters add up to the
\* number of files, skipped being the number of already-migrated files.
C9_SkippedCountsAlreadyMigrated ==
    summary # << >> =>
        /\ \A i \in Files :
              Cardinality({k \in 1..Len(log) : log[k].file = i}) = 1
        /\ summary[1] + summary[2] + summary[3] = NumFiles
        /\ \A k \in 1..3 : summary[k] >= 0
        /\ summary[3] = Cardinality({i \in Files :
                                       OutcomeOf(i) = "AlreadyMigrated"})

\* C10: in a migrated file the original class header up to the opening
\* brace, and the original text between that brace and the insertion point,
\* are still present, changed by the Reference Rewriter at most.
C10_SpliceOnlyInserts ==
    \A i \in MigratedFiles :
        Located(i) =>
            LET c == orig[i]
                name == ClassName(c)
                s == Min(ClassStartMatches(c, name))
                j == SkipNot(c, s + 3, {"{"})
                p == Max(ClassStartAt(c, s, name))
            IN  /\ Occurrences(disk[i], Rewrite(Slice(c, s, j))) # {}
                /\ \/ p = j + 1
                   \/ Occurrences(disk[i], Rewrite(Slice(c, j + 1, p - 1))) # {}

=============================================================================
